---- MODULE Spec2Model ----
(***************************************************************************)
(* A model of the 16-way SHA-256 proof-of-work solvers of simd-mcaptcha    *)
(* (src/src/lib.rs): target arithmetic, prefix conditioning, the           *)
(* single-block and double-block search loops and the final recompute.     *)
(*                                                                         *)
(* Numbers wider than TLC's integers are big-endian sequences of 16-bit    *)
(* limbs: a u32 is <<hi, lo>>, a u64 has 4 limbs, a u128 has 8.            *)
(*                                                                         *)
(* Three specifications share the variables: Spec follows one solver from  *)
(* construction through its solve calls, iteration by iteration; SpecNew   *)
(* runs both constructors over prefixes of every tail length; SpecTarget   *)
(* applies compute_target to pairs of difficulties.                        *)
(***************************************************************************)
EXTENDS Integers, Sequences, FiniteSets, TLC

(***************************************************************************)
(* Bounds of the model.                                                    *)
(***************************************************************************)
\* difficulties 1..MaxDifficulty (and the boundary ones) feed compute_target
MaxDifficulty == 20

\* the inner loop tries inner_key in 0..MaxInnerKey-1 in place of 0..10_000_000
MaxInnerKey == 2

\* the tests' phrases have 0..MaxPhraseLen characters
MaxPhraseLen == 63

\* opaque prefixes of 0..MaxRawLen bytes
MaxRawLen == 130

\* solve is called up to MaxCalls times on a single-block solver
MaxCalls == 2

(***************************************************************************)
(* Program constants.                                                      *)
(***************************************************************************)
\* u128::max_value()
U128Max == <<65535, 65535, 65535, 65535, 65535, 65535, 65535, 65535>>

\* u32::MAX, the largest difficulty factor
U32Max == <<65535, 65535>>

\* u64::MAX in decimal digits
U64MaxDecimal == <<1, 8, 4, 4, 6, 7, 4, 4, 0, 7, 3, 7, 0, 9, 5, 5, 1, 6, 1, 5>>

\* 1_000_000_000 as a u64
Billion == <<0, 0, 15258, 51712>>

\* DIFFICULTY of the crate's tests
TestDifficulty == <<0, 50000>>

\* const SWAP_DWORD_BYTE_ORDER: [usize; 64]
SWAP_DWORD_BYTE_ORDER == <<
    3, 2, 1, 0, 7, 6, 5, 4, 11, 10, 9, 8, 15, 14, 13, 12,
    19, 18, 17, 16, 23, 22, 21, 20, 27, 26, 25, 24, 31, 30, 29, 28,
    35, 34, 33, 32, 39, 38, 37, 36, 43, 42, 41, 40, 47, 46, 45, 44,
    51, 50, 49, 48, 55, 54, 53, 52, 59, 58, 57, 56, 63, 62, 61, 60 >>

\* DoubleBlockSolver16Way::DIGIT_IDX
DIGIT_IDX == 54

\* for prefix_set_index in 0..5
PrefixSets == 5

\* b"1111111111222222222233..9999999999": the first digit of the lane IDs 10..99
LaneId0Digits == <<
    49, 49, 49, 49, 49, 49, 49, 49, 49, 49, 50, 50, 50, 50, 50,
    50, 50, 50, 50, 50, 51, 51, 51, 51, 51, 51, 51, 51, 51, 51,
    52, 52, 52, 52, 52, 52, 52, 52, 52, 52, 53, 53, 53, 53, 53,
    53, 53, 53, 53, 53, 54, 54, 54, 54, 54, 54, 54, 54, 54, 54,
    55, 55, 55, 55, 55, 55, 55, 55, 55, 55, 56, 56, 56, 56, 56,
    56, 56, 56, 56, 56, 57, 57, 57, 57, 57, 57, 57, 57, 57, 57 >>

\* b"0123456789012345678901..0123456789": the second digit of the lane IDs 10..99
LaneId1Digits == <<
    48, 49, 50, 51, 52, 53, 54, 55, 56, 57, 48, 49, 50, 51, 52,
    53, 54, 55, 56, 57, 48, 49, 50, 51, 52, 53, 54, 55, 56, 57,
    48, 49, 50, 51, 52, 53, 54, 55, 56, 57, 48, 49, 50, 51, 52,
    53, 54, 55, 56, 57, 48, 49, 50, 51, 52, 53, 54, 55, 56, 57,
    48, 49, 50, 51, 52, 53, 54, 55, 56, 57, 48, 49, 50, 51, 52,
    53, 54, 55, 56, 57, 48, 49, 50, 51, 52, 53, 54, 55, 56, 57 >>


(***************************************************************************)
(* Bitwise operations on 16-bit limbs, by 4-bit slices looked up in        *)
(* tables of the three-input boolean functions SHA-256 uses.               *)
(***************************************************************************)
Bit(a, i) == (a \div (2 ^ i)) % 2

B3(tt, a, b, c, i) == tt[1 + Bit(a, i) + 2 * Bit(b, i) + 4 * Bit(c, i)]

Nib3(tt, a, b, c) ==
    B3(tt, a, b, c, 0) + 2 * B3(tt, a, b, c, 1) + 4 * B3(tt, a, b, c, 2) + 8 * B3(tt, a, b, c, 3)

Table3(tt) ==
    [i \in 1..4096 |-> Nib3(tt, (i - 1) % 16, ((i - 1) \div 16) % 16, (i - 1) \div 256)] \o <<>>

\* x XOR y XOR z
Xor3T == Table3(<<0, 1, 1, 0, 1, 0, 0, 1>>)

\* (x AND y) XOR (NOT x AND z)
ChT == Table3(<<0, 0, 0, 1, 1, 0, 1, 1>>)

\* (x AND y) XOR (x AND z) XOR (y AND z)
MajT == Table3(<<0, 0, 0, 1, 0, 1, 1, 1>>)

\* x OR y (the third input is ignored)
OrT == Table3(<<0, 1, 1, 1, 0, 1, 1, 1>>)

Op16(T, a, b, c) ==
      T[1 + (a % 16) + 16 * (b % 16) + 256 * (c % 16)]
    + 16 * T[1 + ((a \div 16) % 16) + 16 * ((b \div 16) % 16) + 256 * ((c \div 16) % 16)]
    + 256 * T[1 + ((a \div 256) % 16) + 16 * ((b \div 256) % 16) + 256 * ((c \div 256) % 16)]
    + 4096 * T[1 + (a \div 4096) + 16 * (b \div 4096) + 256 * (c \div 4096)]

Op32(T, x, y, z) == <<Op16(T, x[1], y[1], z[1]), Op16(T, x[2], y[2], z[2])>>

\* u32 | u32, _mm512_or_epi32 in one lane
Or32(x, y) == Op32(OrT, x, y, <<0, 0>>)

RotR(x, n) ==
    LET s == IF n >= 16 THEN <<x[2], x[1]>> ELSE x
        m == n % 16
        p == 2 ^ m
        q == 2 ^ (16 - m)
    IN  IF m = 0 THEN s
        ELSE <<(s[1] \div p) + (s[2] % p) * q, (s[2] \div p) + (s[1] % p) * q>>

ShR(x, n) ==
    LET p == 2 ^ n
        q == 2 ^ (16 - n)
    IN  <<x[1] \div p, (x[2] \div p) + (x[1] % p) * q>>

\* wrapping u32 addition, _mm512_add_epi32 in one lane
Add32(x, y) ==
    LET lo == x[2] + y[2]
    IN  <<(x[1] + y[1] + lo \div 65536) % 65536, lo % 65536>>

(***************************************************************************)
(* SHA-256 (FIPS 180-4): mod sha256 of the crate.                          *)
(***************************************************************************)
SmallSigma0(x) == Op32(Xor3T, RotR(x, 7), RotR(x, 18), ShR(x, 3))

SmallSigma1(x) == Op32(Xor3T, RotR(x, 17), RotR(x, 19), ShR(x, 10))

BigSigma0(x) == Op32(Xor3T, RotR(x, 2), RotR(x, 13), RotR(x, 22))

BigSigma1(x) == Op32(Xor3T, RotR(x, 6), RotR(x, 11), RotR(x, 25))

Ch(e, f, g) == Op32(ChT, e, f, g)

Maj(a, b, c) == Op32(MajT, a, b, c)

RoundConstants == <<
    <<17034, 12184>>, <<28983, 17553>>, <<46528, 64463>>, <<59829, 56229>>,
    <<14678, 49755>>, <<23025, 4593>>, <<37439, 33444>>, <<43804, 24277>>,
    <<55303, 43672>>, <<4739, 23297>>, <<9265, 34238>>, <<21772, 32195>>,
    <<29374, 23924>>, <<32990, 45566>>, <<39900, 1703>>, <<49563, 61812>>,
    <<58523, 27073>>, <<61374, 18310>>, <<4033, 40390>>, <<9228, 41420>>,
    <<11753, 11375>>, <<19060, 33962>>, <<23728, 43484>>, <<30457, 35034>>,
    <<38974, 20818>>, <<43057, 50797>>, <<45059, 10184>>, <<48985, 32711>>,
    <<50912, 3059>>, <<54695, 37191>>, <<1738, 25425>>, <<5161, 10599>>,
    <<10167, 2693>>, <<11803, 8504>>, <<19756, 28156>>, <<21304, 3347>>,
    <<25866, 29524>>, <<30314, 2747>>, <<33218, 51502>>, <<37490, 11397>>,
    <<41663, 59553>>, <<43034, 26187>>, <<49739, 35696>>, <<51052, 20899>>,
    <<53650, 59417>>, <<54937, 1572>>, <<62478, 13701>>, <<4202, 41072>>,
    <<6564, 49430>>, <<7735, 27656>>, <<10056, 30540>>, <<13488, 48309>>,
    <<14620, 3251>>, <<20184, 43594>>, <<23452, 51791>>, <<26670, 28659>>,
    <<29839, 33518>>, <<30885, 25455>>, <<33992, 30740>>, <<36039, 520>>,
    <<37054, 65530>>, <<42064, 27883>>, <<48889, 41975>>, <<50801, 30962>>
>>

\* the initial hash value both constructors start from
InitialState == << <<27145, 58983>>, <<47975, 44677>>, <<15470, 62322>>, <<42319, 62778>>, <<20750, 21119>>, <<39685, 26764>>, <<8067, 55723>>, <<23520, 52505>> >>

Round(s, kw) ==
    LET t1 == Add32(Add32(Add32(s[8], BigSigma1(s[5])), Ch(s[5], s[6], s[7])), kw)
        t2 == Add32(BigSigma0(s[1]), Maj(s[1], s[2], s[3]))
    IN  <<Add32(t1, t2), s[1], s[2], s[3], Add32(s[4], t1), s[5], s[6], s[7]>>

RECURSIVE ScheduleWords(_, _)
\* the schedule w with its next n words
ScheduleWords(w, n) ==
    IF Len(w) >= 16 /\ n = 0 THEN w
    ELSE LET t == Len(w) + 1
         IN  ScheduleWords(Append(w,
                 Add32(Add32(SmallSigma1(w[t - 2]), w[t - 7]),
                       Add32(SmallSigma0(w[t - 15]), w[t - 16]))), n - 1)

RECURSIVE ScheduleFrom(_)
\* the schedule of 64 words that starts with w, eight words at a time
ScheduleFrom(w) ==
    IF Len(w) >= 64 THEN w ELSE ScheduleFrom(ScheduleWords(w, 8))

\* sha256::do_message_schedule: the first 16 words are given, the other 48 are filled in
do_message_schedule(w) == ScheduleFrom(SubSeq(w, 1, 16))

RECURSIVE RoundsFrom(_, _, _, _)
\* the n rounds t .. t + n - 1
RoundsFrom(s, w, t, n) ==
    IF Len(s) = 8 /\ n = 0 THEN s
    ELSE RoundsFrom(Round(s, Add32(RoundConstants[t], w[t])), w, t + 1, n - 1)

RECURSIVE Rounds(_, _, _)
\* the rounds t .. 64, eight rounds at a time
Rounds(s, w, t) ==
    IF Len(s) = 8 /\ t > 64 THEN s
    ELSE Rounds(RoundsFrom(s, w, t, 8), w, t + 8)

\* one lane of sha256::compress_16block_avx512_bcst_without_feedback: 64 rounds over
\* a given message schedule, the input state not added back
compress_bcst_without_feedback(state, schedule) == Rounds(state, schedule, 1)

\* one lane of sha256::compress_16block_avx512_without_feedback; the module sha256 is
\* not part of the sources, so this is FIPS 180-4 compression of the lane's block, and
\* the blocks handed to it are taken to come back as they were
compress_without_feedback(state, block) ==
    compress_bcst_without_feedback(state, ScheduleFrom(block))

\* sha256::compress_block_reference: the compression with the feedback addition
compress_block_reference(state, block) ==
    LET r == compress_without_feedback(state, block)
    IN  [i \in 1..8 |-> Add32(state[i], r[i])] \o <<>>

(***************************************************************************)
(* Unsigned integers of 32, 64 and 128 bits as big-endian limb sequences.  *)
(***************************************************************************)
\* `x as u64`, `x as u128`: zero extension to n limbs
ZeroExtend(x, n) ==
    [i \in 1..n |-> IF i <= n - Len(x) THEN 0 ELSE x[i - (n - Len(x))]] \o <<>>

\* a small non-negative integer as an n-limb number (n >= 2)
FromInt(v, n) ==
    [i \in 1..n |-> IF i = n THEN v % 65536 ELSE IF i = n - 1 THEN v \div 65536 ELSE 0] \o <<>>

IsZero(x) == \A i \in 1..Len(x) : x[i] = 0

\* x < y for numbers of the same width
LtNat(x, y) ==
    \E i \in 1..Len(x) : x[i] < y[i] /\ \A j \in 1..(i - 1) : x[j] = y[j]

LeNat(x, y) == ~LtNat(y, x)

\* the borrow that limb i takes from the limbs after it
Borrow(x, y, i) == LtNat(SubSeq(x, i + 1, Len(x)), SubSeq(y, i + 1, Len(y)))

\* wrapping x - y for numbers of the same width
SubNat(x, y) ==
    [i \in 1..Len(x) |->
        (x[i] - y[i] - (IF Borrow(x, y, i) THEN 1 ELSE 0) + 65536) % 65536] \o <<>>

\* the carry that the limbs after limb i hand to it
Carry(x, y, i) ==
    \E j \in (i + 1)..Len(x) :
        /\ x[j] + y[j] >= 65536
        /\ \A k \in (i + 1)..(j - 1) : x[k] + y[k] = 65535

\* wrapping x + y for numbers of the same width
AddNat(x, y) ==
    [i \in 1..Len(x) |->
        (x[i] + y[i] + (IF Carry(x, y, i) THEN 1 ELSE 0)) % 65536] \o <<>>

\* x shifted left by one bit, bit b shifted in, the top bit dropped
Shl1(x, b) ==
    [i \in 1..Len(x) |->
        ((2 * x[i]) % 65536)
        + (IF i < Len(x) THEN x[i + 1] \div 32768 ELSE b)] \o <<>>

\* bit i of x, bit 0 the most significant
BitAt(x, i) == (x[1 + (i \div 16)] \div (2 ^ (15 - (i % 16)))) % 2

RECURSIVE DivBits(_, _, _, _, _, _)
\* binary long division over the n bits of x from bit i: q is the quotient of the bits
\* before i, r their remainder (one limb wider than x, so that 2r + 1 fits)
DivBits(x, y, i, n, q, r) ==
    IF Len(q) = Len(x) /\ Len(r) = Len(y) /\ n = 0 THEN <<q, r>>
    ELSE LET r2 == Shl1(r, BitAt(x, i))
             ge == LeNat(y, r2)
         IN  DivBits(x, y, i + 1, n - 1, Shl1(q, IF ge THEN 1 ELSE 0),
                     IF ge THEN SubNat(r2, y) ELSE r2)

RECURSIVE DivLoop(_, _, _, _)
\* the long division a limb of x at a time, from bit i on
DivLoop(x, y, i, qr) ==
    IF Len(qr) = 2 /\ i = 16 * Len(x) THEN qr[1]
    ELSE DivLoop(x, y, i + 16, DivBits(x, y, i, 16, qr[1], qr[2]))

\* x / y for unsigned numbers of the same width, y > 0
DivNat(x, y) ==
    DivLoop(x, ZeroExtend(y, Len(y) + 1), 0,
            <<ZeroExtend(<<>>, Len(x)), ZeroExtend(<<>>, Len(y) + 1)>>)

\* the bytes of a limb sequence, most significant first
BytesOf(x) ==
    [k \in 1..(2 * Len(x)) |->
        IF k % 2 = 1 THEN x[(k + 1) \div 2] \div 256 ELSE x[k \div 2] % 256] \o <<>>

\* the limb sequence of an even number of bytes
LimbsOf(b) == [i \in 1..(Len(b) \div 2) |-> b[2 * i - 1] * 256 + b[2 * i]] \o <<>>

RECURSIVE ColumnSum(_, _, _, _)
\* the sum of xb[i] * yb[j] over the byte pairs of weight 256^k, from index i of xb on
\* (index 1 is the most significant byte)
ColumnSum(xb, yb, k, i) ==
    IF i > Len(xb) THEN 0
    ELSE LET j == Len(xb) + Len(yb) - k - i
         IN  (IF j >= 1 /\ j <= Len(yb) THEN xb[i] * yb[j] ELSE 0)
             + ColumnSum(xb, yb, k, i + 1)

RECURSIVE MulColumns(_, _, _, _, _)
MulColumns(xb, yb, k, carry, acc) ==
    IF Len(acc) = Len(xb) + Len(yb) THEN acc
    ELSE LET col == carry + ColumnSum(xb, yb, k, 1)
         IN  MulColumns(xb, yb, k + 1, col \div 256, <<col % 256>> \o acc)

\* the full product x * y, Len(x) + Len(y) limbs wide
MulNat(x, y) == LimbsOf(MulColumns(BytesOf(x), BytesOf(y), 0, 0, <<>>))

RECURSIVE DivSmallLoop(_, _, _, _, _)
DivSmallLoop(x, m, i, r, q) ==
    IF i > Len(x) THEN <<q, r>>
    ELSE LET cur == r * 65536 + x[i]
         IN  DivSmallLoop(x, m, i + 1, cur % m, Append(q, cur \div m))

\* <<x / m, x % m>> for a small divisor m
DivModSmall(x, m) == DivSmallLoop(x, m, 1, 0, <<>>)

(***************************************************************************)
(* Target arithmetic.                                                      *)
(***************************************************************************)
\* a faulty compute_target that returns the quotient and forgets the subtraction
compute_target_quotient(difficulty_factor) ==
    DivNat(U128Max, ZeroExtend(difficulty_factor, 8))

\* a faulty compute_target that divides u32::MAX, before the widening to u128
compute_target_narrow(difficulty_factor) ==
    SubNat(U128Max, ZeroExtend(DivNat(U32Max, difficulty_factor), 8))

\* compute_target: u128::max_value() - u128::max_value() / difficulty_factor as u128
compute_target(difficulty_factor) ==
    SubNat(U128Max, DivNat(U128Max, ZeroExtend(difficulty_factor, 8)))

\* the test's decomposition of a target into four big-endian u32 words
target_u32s(t) == [i \in 1..4 |-> <<t[2 * i - 1], t[2 * i]>>] \o <<>>

(***************************************************************************)
(* Bytes and words.                                                        *)
(***************************************************************************)
\* u32::from_be_bytes of bytes 4i .. 4i+3 (i from 0) of a byte sequence
from_be_bytes(b, i) == <<b[4 * i + 1] * 256 + b[4 * i + 2], b[4 * i + 3] * 256 + b[4 * i + 4]>>

\* core::array::from_fn(|i| u32::from_be_bytes(..)): the 16 words of a 64-byte block
WordsOfBlock(b) == [i \in 1..16 |-> from_be_bytes(b, i - 1)] \o <<>>

\* byte k (0 the least significant) of a u32, as a little-endian machine stores it
ByteOfWord(w, k) ==
    IF k = 0 THEN w[2] % 256
    ELSE IF k = 1 THEN w[2] \div 256
    ELSE IF k = 2 THEN w[1] % 256
    ELSE w[1] \div 256

SetByteOfWord(w, k, v) ==
    IF k = 0 THEN <<w[1], (w[2] \div 256) * 256 + v>>
    ELSE IF k = 1 THEN <<w[1], v * 256 + (w[2] % 256)>>
    ELSE IF k = 2 THEN <<(w[1] \div 256) * 256 + v, w[2]>>
    ELSE <<v * 256 + (w[1] % 256), w[2]>>

\* decompose_blocks: byte m (from 0) of the memory of a [u32; 16]
decompose_blocks(words, m) == ByteOfWord(words[1 + (m \div 4)], m % 4)

\* decompose_blocks_mut(..)[m] = v
decompose_blocks_mut(words, m, v) ==
    [words EXCEPT ![1 + (m \div 4)] = SetByteOfWord(@, m % 4, v)]

\* message byte i (from 0) of the template, through SWAP_DWORD_BYTE_ORDER
MessageByte(words, i) == decompose_blocks(words, SWAP_DWORD_BYTE_ORDER[i + 1])

\* the 64 message bytes of a [u32; 16], in message order
BlockBytes(words) == [i \in 1..64 |-> MessageByte(words, i - 1)] \o <<>>

\* n copies of byte v
Repeat(v, n) == [i \in 1..n |-> v] \o <<>>

(***************************************************************************)
(* Prefixes.                                                               *)
(***************************************************************************)
\* the tests' prefix: the salt "z", then bincode's encoding of the phrase "a" * len
\* (its length as a little-endian u64, then its bytes)
build_prefix(len) ==
    <<122>> \o <<len % 256, len \div 256, 0, 0, 0, 0, 0, 0>> \o Repeat(97, len)

\* an opaque prefix of n bytes
RawPrefix(n) == [i \in 1..n |-> 65 + (i % 26)] \o <<>>

(***************************************************************************)
(* u64 arithmetic of the constructors.                                     *)
(***************************************************************************)
\* the low 64 bits of x * y and whether the product left the u64 range
MulU64(x, y) ==
    LET p == MulNat(x, y)
    IN  [value |-> SubSeq(p, 5, 8), overflow |-> ~IsZero(SubSeq(p, 1, 4))]

\* the low 64 bits of x + y and whether the sum left the u64 range
AddU64(x, y) == [value |-> AddNat(x, y), overflow |-> Carry(x, y, 0)]

\* nonce_addend *= 10; nonce_addend += 1; on a record [value, overflow]
PushOne(a) ==
    LET m == MulU64(a.value, FromInt(10, 4))
        s == AddU64(m.value, FromInt(1, 4))
    IN  [value |-> s.value, overflow |-> a.overflow \/ m.overflow \/ s.overflow]

RECURSIVE AbsorbFullBlocks(_, _)
\* while prefix.len() >= 64 { compress_block_reference(..); prefix = &prefix[64..]; }
AbsorbFullBlocks(state, prefix) ==
    IF Len(state) = 8 /\ Len(prefix) >= 64
    THEN AbsorbFullBlocks(
             compress_block_reference(state, WordsOfBlock(SubSeq(prefix, 1, 64))),
             SubSeq(prefix, 65, Len(prefix)))
    ELSE [prefix_state |-> state, prefix |-> prefix]

(***************************************************************************)
(* SingleBlockSolver16Way::new                                             *)
(***************************************************************************)
\* a faulty NeedsFillerBlock that leaves room for the digits but not for the padding
NeedsFillerBlockTight(len) == len + 9 > 64

\* if prefix.len() + 9 + 9 > 64
NeedsFillerBlock(len) == len + 9 + 9 > 64

RECURSIVE FillerAddend(_, _)
\* the for_each over the filler bytes of tmp_block
FillerAddend(n, a) ==
    IF a.overflow \in BOOLEAN /\ n = 0 THEN a ELSE FillerAddend(n - 1, PushOne(a))

\* a faulty SingleTemplate whose bit length forgets the blocks absorbed before
SingleTemplateTailOnly(tail, complete_blocks_before) ==
    LET ptr == Len(tail) + 9
        bitlen == BytesOf(FromInt(ptr * 8, 4))
    IN  [i \in 1..64 |->
            IF i > 64 - 8 THEN bitlen[i - 56]
            ELSE IF i = ptr + 1 THEN 128
            ELSE IF i <= Len(tail) THEN tail[i]
            ELSE 0] \o <<>>

\* the template: the tail, 9 zero bytes for the digits, 0x80, zeros, the bit length
SingleTemplate(tail, complete_blocks_before) ==
    LET ptr == Len(tail) + 9
        bitlen == BytesOf(FromInt((complete_blocks_before * 64 + ptr) * 8, 4))
    IN  [i \in 1..64 |->
            IF i > 64 - 8 THEN bitlen[i - 56]
            ELSE IF i = ptr + 1 THEN 128
            ELSE IF i <= Len(tail) THEN tail[i]
            ELSE 0] \o <<>>

\* None; wrapped tells whether an unchecked u64 operation overflowed on the way (a panic
\* of a build with overflow checks)
NoSolver(wrapped) == [tag |-> "none", wrapped |-> wrapped]

Unbuilt == [tag |-> "unbuilt"]

\* Some(Self { .. }); filler is not a field of the struct: it counts the b'1' bytes that
\* new put after the prefix
SingleSolver(prefix_state, tail, complete_blocks_before, addend, filler) ==
    [tag |-> "some",
     filler |-> filler,
     prefix_state |-> prefix_state,
     message |-> WordsOfBlock(SingleTemplate(tail, complete_blocks_before)),
     digit_index |-> Len(tail),
     nonce_addend |-> addend.value,
     wrapped |-> addend.overflow]

SingleNew(prefix) ==
    LET full == AbsorbFullBlocks(InitialState, prefix)
        tail == full.prefix
        blocks_before == (Len(prefix) - Len(tail)) \div 64
        zero == [value |-> FromInt(0, 4), overflow |-> FALSE]
    IN  IF NeedsFillerBlock(Len(tail))
        THEN LET ones == FillerAddend(64 - Len(tail), zero)
                 scaled == MulU64(ones.value, Billion)
                 tmp_block == tail \o Repeat(49, 64 - Len(tail))
             IN  IF scaled.overflow THEN NoSolver(ones.overflow)
                 ELSE SingleSolver(
                          compress_block_reference(full.prefix_state, WordsOfBlock(tmp_block)),
                          <<>>, blocks_before + 1,
                          [value |-> scaled.value, overflow |-> ones.overflow],
                          64 - Len(tail))
        ELSE SingleSolver(full.prefix_state, tail, blocks_before, zero, 0)

(***************************************************************************)
(* DoubleBlockSolver16Way::new                                             *)
(***************************************************************************)
\* a faulty NeedsPadding that stops one byte late
NeedsPaddingLate(ptr) == (ptr + 1) % 8 # 0

\* while (ptr + 2) % 8 != 0
NeedsPadding(ptr) == (ptr + 2) % 8 # 0

RECURSIVE PadWithOnes(_, _, _)
\* the padding loop; message.get_mut(ptr)? ends the constructor with None at ptr = 64
PadWithOnes(message, ptr, a) ==
    IF Len(message) = 64 /\ a.overflow \in BOOLEAN /\ NeedsPadding(ptr)
    THEN IF ptr >= 64 THEN [ok |-> FALSE, addend |-> PushOne(a)]
         ELSE PadWithOnes([message EXCEPT ![ptr + 1] = 49], ptr + 1, PushOne(a))
    ELSE [ok |-> TRUE, message |-> message, ptr |-> ptr, addend |-> a]

\* a faulty AtDigitIdx that expects the window one 64-bit word early
AtDigitIdxEarly(ptr) == ptr = DIGIT_IDX - 8

\* if ptr != Self::DIGIT_IDX as usize { return None; }
AtDigitIdx(ptr) == ptr = DIGIT_IDX

\* terminal_message_schedule before do_message_schedule: zeros and the bit length
TerminalBlock(message_length) ==
    [i \in 1..64 |->
        IF i = 15 THEN <<0, ((message_length * 8) \div 65536) \div 65536>>
        ELSE IF i = 16
        THEN <<((message_length * 8) \div 65536) % 65536, (message_length * 8) % 65536>>
        ELSE <<0, 0>>] \o <<>>

DoubleNew(prefix) ==
    LET full == AbsorbFullBlocks(InitialState, prefix)
        tail == full.prefix
        blocks_before == (Len(prefix) - Len(tail)) \div 64
        zero == [value |-> FromInt(0, 4), overflow |-> FALSE]
        padded == PadWithOnes(tail \o Repeat(0, 64 - Len(tail)), Len(tail), zero)
    IN  IF ~padded.ok THEN NoSolver(padded.addend.overflow)
        ELSE LET scaled == MulU64(padded.addend.value, Billion)
                 ptr == padded.ptr + 9
             IN  IF ~AtDigitIdx(padded.ptr)
                 THEN NoSolver(padded.addend.overflow \/ scaled.overflow)
                 ELSE [tag |-> "some",
                       filler |-> padded.ptr - Len(tail),
                       prefix_state |-> full.prefix_state,
                       message |-> WordsOfBlock([padded.message EXCEPT ![ptr + 1] = 128]),
                       terminal_message_schedule |->
                           do_message_schedule(TerminalBlock(blocks_before * 64 + ptr)),
                       nonce_addend |-> scaled.value,
                       wrapped |-> padded.addend.overflow \/ scaled.overflow]

(***************************************************************************)
(* SingleBlockSolver16Way::solve                                           *)
(***************************************************************************)
\* (byte as u32) << ((3 - byte_idx) * 8)
ShiftToByte(byte, byte_idx) ==
    IF byte_idx = 0 THEN <<byte * 256, 0>>
    ELSE IF byte_idx = 1 THEN <<byte, 0>>
    ELSE IF byte_idx = 2 THEN <<0, byte * 256>>
    ELSE <<0, byte>>

\* lane_id_0_or_value[i], i from 0
lane_id_0_or_value(digit_index, i) == ShiftToByte(LaneId0Digits[i + 1], digit_index % 4)

\* lane_id_1_or_value[i], i from 0
lane_id_1_or_value(digit_index, i) == ShiftToByte(LaneId1Digits[i + 1], (digit_index + 1) % 4)

\* DIGIT_WORD_IDX0 and DIGIT_WORD_IDX1 of solve_inner
DigitWordIdx0(digit_index) == digit_index \div 4

DigitWordIdx1(digit_index) == (digit_index + 1) \div 4

\* lane_id_0_or_value_v: the masks of prefix set p, both digits when they share a word
lane_id_0_or_value_v(digit_index, p) ==
    [l \in 1..16 |->
        IF DigitWordIdx0(digit_index) = DigitWordIdx1(digit_index)
        THEN Or32(lane_id_0_or_value(digit_index, p * 16 + l - 1),
                  lane_id_1_or_value(digit_index, p * 16 + l - 1))
        ELSE lane_id_0_or_value(digit_index, p * 16 + l - 1)] \o <<>>

lane_id_1_or_value_v(digit_index, p) ==
    [l \in 1..16 |-> lane_id_1_or_value(digit_index, p * 16 + l - 1)] \o <<>>

\* _mm512_set1_epi32
Broadcast(w) == [l \in 1..16 |-> w] \o <<>>

\* fetch_msg!(idx), idx from 0: the 16 lanes of message word idx
fetch_msg(message, digit_index, p, idx) ==
    IF idx = DigitWordIdx0(digit_index)
    THEN LET v == lane_id_0_or_value_v(digit_index, p)
         IN  [l \in 1..16 |-> Or32(message[idx + 1], v[l])] \o <<>>
    ELSE IF idx = DigitWordIdx1(digit_index)
    THEN LET v == lane_id_1_or_value_v(digit_index, p)
         IN  [l \in 1..16 |-> Or32(message[idx + 1], v[l])] \o <<>>
    ELSE Broadcast(message[idx + 1])

\* let mut blocks = [fetch_msg!(0), .., fetch_msg!(15)]
SingleLoadBlocks(message, digit_index, p) ==
    [w \in 1..16 |-> fetch_msg(message, digit_index, p, w - 1)] \o <<>>

RECURSIVE WriteInnerKeyEarly(_, _, _, _)
\* a faulty WriteInnerKey that writes the seven digits one byte early, over the second
\* lane-ID byte
WriteInnerKeyEarly(message, digit_index, i, key_copy) ==
    IF Len(message) = 16 /\ i = 0 THEN message
    ELSE WriteInnerKeyEarly(
             decompose_blocks_mut(message,
                 SWAP_DWORD_BYTE_ORDER[digit_index + (i - 1) + 1 + 1],
                 (key_copy % 10) + 48),
             digit_index, i - 1, key_copy \div 10)

RECURSIVE WriteInnerKey(_, _, _, _)
\* for i in (0..7).rev() { message_bytes[SWAP[digit_index + i + 2]] = key_copy % 10 + b'0'; .. }
\* called with i = 7: the digits of positions i - 1 .. 0 are still to be written
WriteInnerKey(message, digit_index, i, key_copy) ==
    IF Len(message) = 16 /\ i = 0 THEN message
    ELSE WriteInnerKey(
             decompose_blocks_mut(message,
                 SWAP_DWORD_BYTE_ORDER[digit_index + (i - 1) + 2 + 1],
                 (key_copy % 10) + 48),
             digit_index, i - 1, key_copy \div 10)

\* a faulty SingleReloadBlocks that re-loads two words only
SingleReloadBlocksTwo(blocks, message, digit_index, p) ==
    LET idx1 == DigitWordIdx1(digit_index)
    IN  [w \in 1..16 |->
            IF w - 1 = idx1 THEN fetch_msg(message, digit_index, p, idx1)
            ELSE IF w - 1 = idx1 + 1 /\ idx1 < 15 THEN fetch_msg(message, digit_index, p, idx1 + 1)
            ELSE blocks[w]] \o <<>>

\* the two or three words re-loaded in every iteration
SingleReloadBlocks(blocks, message, digit_index, p) ==
    LET idx1 == DigitWordIdx1(digit_index)
    IN  [w \in 1..16 |->
            IF w - 1 = idx1 THEN fetch_msg(message, digit_index, p, idx1)
            ELSE IF w - 1 = idx1 + 1 /\ idx1 < 15 THEN fetch_msg(message, digit_index, p, idx1 + 1)
            ELSE IF w - 1 = idx1 + 2 /\ idx1 < 14 THEN fetch_msg(message, digit_index, p, idx1 + 2)
            ELSE blocks[w]] \o <<>>

\* the 16-word block of lane l (from 1) of a lane bundle
LaneBlock(blocks, l) == [w \in 1..16 |-> blocks[w][l]] \o <<>>

\* unsigned a > b on u32, one lane of _mm512_cmpgt_epu32_mask
Gt32(a, b) == a[1] > b[1] \/ (a[1] = b[1] /\ a[2] > b[2])

\* the lanes (from 0) whose bit is set in a_is_greater
a_is_greater(lane_a, target0) == {l \in 0..15 : Gt32(lane_a[l + 1], target0)}

\* _tzcnt_u32(a_is_greater) of a mask that is not zero
success_lane_idx(mask) == CHOOSE l \in mask : \A m \in mask : l <= m

\* a faulty nonce_prefix without the offset that keeps the first digit from being 0
nonce_prefix_from_zero(p, lane) == 16 * p + lane

\* let nonce_prefix = 10 + 16 * prefix_set_index + success_lane_idx
nonce_prefix(p, lane) == 10 + 16 * p + lane

\* a faulty StampLaneId that writes the two digits in the wrong order
StampLaneIdSwapped(message, digit_index, np) ==
    decompose_blocks_mut(
        decompose_blocks_mut(message, SWAP_DWORD_BYTE_ORDER[digit_index + 1], (np % 10) + 48),
        SWAP_DWORD_BYTE_ORDER[digit_index + 1 + 1], (np \div 10) + 48)

\* stamp the lane ID back onto the message
StampLaneId(message, digit_index, np) ==
    decompose_blocks_mut(
        decompose_blocks_mut(message, SWAP_DWORD_BYTE_ORDER[digit_index + 1], (np \div 10) + 48),
        SWAP_DWORD_BYTE_ORDER[digit_index + 1 + 1], (np % 10) + 48)

\* (s[0] as u128) << 96 | (s[1] as u128) << 64 | (s[2] as u128) << 32 | (s[3] as u128)
Digest128(s) == s[1] \o s[2] \o s[3] \o s[4]

\* nonce_prefix * 10u64.pow(7) + inner_key
SingleNonce(np, inner_key) == np * 10000000 + inner_key

\* the A word of every lane: compress_16block_avx512_without_feedback, then the
\* broadcast add of prefix_state[0]
SingleLaneA(prefix_state, blocks) ==
    [l \in 1..16 |->
        Add32(compress_without_feedback(prefix_state, LaneBlock(blocks, l))[1],
              prefix_state[1])] \o <<>>

\* one iteration of the inner loop of solve_inner on solver s at (p, inner_key), the
\* blocks loaded at the start of the prefix set when inner_key = 0; on a hit, with the
\* recompute and the return value of solve
SingleIteration(s, old_blocks, target, p, inner_key) ==
    LET loaded == IF inner_key = 0
                  THEN SingleLoadBlocks(s.message, s.digit_index, p)
                  ELSE old_blocks
        keyed == WriteInnerKey(s.message, s.digit_index, 7, inner_key)
        blocks1 == SingleReloadBlocks(loaded, keyed, s.digit_index, p)
        lane_a == SingleLaneA(s.prefix_state, blocks1)
        mask == a_is_greater(lane_a, target[1])
    IN  IF mask # {}
        THEN LET lane == success_lane_idx(mask)
                 np == nonce_prefix(p, lane)
                 stamped == StampLaneId(keyed, s.digit_index, np)
                 final_sha_state == compress_block_reference(s.prefix_state, stamped)
                 nonce == AddU64(FromInt(SingleNonce(np, inner_key), 4), s.nonce_addend)
             IN  [hit |-> TRUE,
                  solver |-> [s EXCEPT !.message = stamped],
                  blocks |-> blocks1,
                  lane_a |-> lane_a,
                  winner |-> [lane |-> lane, a |-> lane_a[lane + 1],
                              block |-> LaneBlock(blocks1, lane + 1)],
                  result |-> [tag |-> "some", nonce |-> nonce.value,
                              digest |-> Digest128(final_sha_state),
                              wrapped |-> nonce.overflow]]
        ELSE [hit |-> FALSE,
              solver |-> [s EXCEPT !.message = keyed],
              blocks |-> blocks1,
              lane_a |-> lane_a]

(***************************************************************************)
(* DoubleBlockSolver16Way::solve                                           *)
(***************************************************************************)
\* lane_id_or_value[i], i from 0: both digits in one word
lane_id_or_value(i) ==
    Or32(ShiftToByte(LaneId0Digits[i + 1], DIGIT_IDX % 4),
         ShiftToByte(LaneId1Digits[i + 1], (DIGIT_IDX + 1) % 4))

\* let mut blocks = [set1(message[0]), .., set1(message[12]), setzero, setzero, setzero]
DoubleInitBlocks(message) ==
    [w \in 1..16 |-> IF w <= 13 THEN Broadcast(message[w]) ELSE Broadcast(<<0, 0>>)] \o <<>>

\* blocks[13] = _mm512_loadu_epi32(lane_id_or_value.as_ptr().add(p * 16))
DoubleLaneWord(p) == [l \in 1..16 |-> lane_id_or_value(p * 16 + l - 1)] \o <<>>

\* x << 8 on u32
Shl8(x) == <<(x[1] % 256) * 256 + (x[2] \div 256), (x[2] % 256) * 256>>

RECURSIVE Cum0(_, _, _)
\* for _ in 0..4 { cum0 <<= 8; cum0 |= key_copy % 10; key_copy /= 10; }
Cum0(n, cum, key_copy) ==
    IF n = 0 THEN [cum |-> cum, key_copy |-> key_copy]
    ELSE Cum0(n - 1, Or32(Shl8(cum), <<0, key_copy % 10>>), key_copy \div 10)

RECURSIVE Cum1(_, _, _)
\* for _ in 0..3 { cum1 += key_copy % 10; cum1 <<= 8; key_copy /= 10; }
Cum1(n, cum, key_copy) ==
    IF n = 0 THEN [cum |-> cum, key_copy |-> key_copy]
    ELSE Cum1(n - 1, Shl8(Add32(cum, <<0, key_copy % 10>>)), key_copy \div 10)

\* <<cum0, cum1>> of inner_key: the words 14 and 15 of block 1
DoubleKeyWords(inner_key) ==
    LET c0 == Cum0(4, <<0, 0>>, inner_key)
        c1 == Cum1(3, <<0, 0>>, c0.key_copy)
    IN  <<Or32(c0.cum, <<12336, 12336>>), Or32(c1.cum, <<12336, 12416>>)>>

RECURSIVE NonceSuffix(_, _, _)
\* for _ in 0..7 { nonce_suffix *= 10; nonce_suffix += key_copy % 10; key_copy /= 10; }
NonceSuffix(n, nonce_suffix, key_copy) ==
    IF n = 0 THEN nonce_suffix
    ELSE NonceSuffix(n - 1, nonce_suffix * 10 + (key_copy % 10), key_copy \div 10)

\* nonce_prefix * 10u64.pow(7) + nonce_suffix as u64
DoubleNonce(np, inner_key) == np * 10000000 + NonceSuffix(7, 0, inner_key)

\* the state of a lane after block 1, with the feedback addition
DoubleLaneState(prefix_state, block) ==
    LET r == compress_without_feedback(prefix_state, block)
    IN  [i \in 1..8 |-> Add32(r[i], prefix_state[i])] \o <<>>

\* the A word of every lane: block 1 with feedback, the terminal block from its schedule,
\* then the add of the saved A
DoubleLaneA(s, blocks) ==
    [l \in 1..16 |->
        LET state == DoubleLaneState(s.prefix_state, LaneBlock(blocks, l))
        IN  Add32(compress_bcst_without_feedback(state, s.terminal_message_schedule)[1],
                  state[1])] \o <<>>

\* one iteration of the inner loop of solve on solver s at (p, inner_key), blocks[13]
\* set at the start of the prefix set when inner_key = 0
DoubleIteration(s, old_blocks, target, p, inner_key) ==
    LET cum == DoubleKeyWords(inner_key)
        blocks1 == [old_blocks EXCEPT ![14] = IF inner_key = 0 THEN DoubleLaneWord(p) ELSE @,
                                      ![15] = Broadcast(cum[1]),
                                      ![16] = Broadcast(cum[2])]
        lane_a == DoubleLaneA(s, blocks1)
        mask == a_is_greater(lane_a, target[1])
    IN  IF mask # {}
        THEN LET lane == success_lane_idx(mask)
                 np == nonce_prefix(p, lane)
                 stamped == StampLaneId([s.message EXCEPT ![15] = cum[1], ![16] = cum[2]],
                                        DIGIT_IDX, np)
                 final_sha_state ==
                     compress_block_reference(
                         compress_block_reference(s.prefix_state, stamped),
                         SubSeq(s.terminal_message_schedule, 1, 16))
                 nonce == AddU64(FromInt(DoubleNonce(np, inner_key), 4), s.nonce_addend)
             IN  [hit |-> TRUE,
                  solver |-> [s EXCEPT !.message = stamped],
                  blocks |-> blocks1,
                  lane_a |-> lane_a,
                  winner |-> [lane |-> lane, a |-> lane_a[lane + 1],
                              block |-> LaneBlock(blocks1, lane + 1)],
                  result |-> [tag |-> "some", nonce |-> nonce.value,
                              digest |-> Digest128(final_sha_state),
                              wrapped |-> nonce.overflow]]
        ELSE [hit |-> FALSE, solver |-> s, blocks |-> blocks1, lane_a |-> lane_a]

(***************************************************************************)
(* The verifier of the tests: SHA-256 of prefix || nonce.to_string().      *)
(***************************************************************************)
RECURSIVE DecimalDigits(_, _)
DecimalDigits(x, acc) ==
    IF IsZero(x) THEN acc
    ELSE LET qr == DivModSmall(x, 10)
         IN  DecimalDigits(qr[1], <<48 + qr[2]>> \o acc)

\* nonce.to_string().as_bytes()
ascii_decimal(x) == IF IsZero(x) THEN <<48>> ELSE DecimalDigits(x, <<>>)

\* the padded encoding of a message: 0x80, zeros up to 56 mod 64, the bit length
Sha256Pad(msg) ==
    msg \o <<128>> \o Repeat(0, (64 - ((Len(msg) + 9) % 64)) % 64)
        \o BytesOf(FromInt(Len(msg) * 8, 4))

RECURSIVE Sha256Absorb(_, _)
\* the chaining state after the 64-byte blocks of bytes
Sha256Absorb(state, bytes) ==
    IF Len(state) = 8 /\ Len(bytes) < 64 THEN state
    ELSE Sha256Absorb(compress_block_reference(state, WordsOfBlock(SubSeq(bytes, 1, 64))),
                      SubSeq(bytes, 65, Len(bytes)))

\* hasher.update(&expected_message); hasher.finalize()
Sha256(msg) == Sha256Absorb(InitialState, Sha256Pad(msg))

(***************************************************************************)
(* The state machine.                                                      *)
(***************************************************************************)
VARIABLES
    prefix,            \* the bytes handed to new
    kinds,             \* the solver types this run constructs
    single,            \* the SingleBlockSolver16Way: Unbuilt, None or Some
    double,            \* the DoubleBlockSolver16Way: Unbuilt, None or Some
    pc,                \* "idle", "solving" inside solve, "done" when solve has returned
    active,            \* the solver whose solve runs
    difficulty,        \* the difficulty factor of the solve call
    target,            \* the [u32; 4] handed to solve
    prefix_set_index,  \* the outer loop variable of solve
    inner_key,         \* the inner loop variable of solve
    blocks,            \* the 16 lanes of the 16 message words
    lane_a,            \* the A word of every lane in the last comparison
    entry,             \* the solver as solve found it
    calls,             \* the number of solve calls so far
    first,             \* what the call before the last one returned
    result,            \* what solve returned
    winner,            \* on a hit: the winning lane, its A word and the block it hashed
    d_in,              \* the difficulties compute_target has been applied to
    t_out              \* their targets

vars == <<prefix, kinds, single, double, pc, active, difficulty, target,
          prefix_set_index, inner_key, blocks, lane_a, entry, calls, first, result,
          winner, d_in, t_out>>

solveVars == <<pc, active, difficulty, target, prefix_set_index, inner_key, blocks,
               lane_a, entry, calls, first, result, winner>>

Unsolved == [tag |-> "unsolved"]

NoWinner == [tag |-> "none"]

\* the prefixes of the solve runs, the tests' prefixes of three phrase lengths: 44 (tail
\* 53: a filler block of 11 bytes for the single-block solver, one filler byte for the
\* double-block solver), 41 (tail 50: refused by the single-block solver, four filler
\* bytes for the double-block solver), 61 (a full block, then a tail of 6), 55 (exactly
\* one full block) and 2 (tail 11: the two lane-ID bytes in different words)
SolvePrefixes ==
    {build_prefix(44), build_prefix(41), build_prefix(61), build_prefix(55), build_prefix(2)}

\* the prefixes of the constructor runs: every phrase length of the tests and short
\* opaque prefixes, which together have every tail length
NewPrefixes == {build_prefix(len) : len \in 0..MaxPhraseLen}
                   \cup {RawPrefix(n) : n \in 0..MaxRawLen}

\* the difficulty factors of the solve runs
SolveDifficulties == {<<0, 1>>, <<0, 2>>, <<0, 4>>, <<0, 8>>, <<0, 16>>, <<0, 32>>, U32Max}

\* the difficulty factors of the compute_target runs
Difficulties ==
    {<<0, n>> : n \in 1..MaxDifficulty}
        \cup {TestDifficulty, <<1, 0>>, <<76, 19264>>, <<32768, 0>>, <<65535, 65534>>, U32Max}

InitCommon ==
    /\ single = Unbuilt
    /\ double = Unbuilt
    /\ pc = "idle"
    /\ active = "none"
    /\ difficulty = <<>>
    /\ target = <<>>
    /\ prefix_set_index = 0
    /\ inner_key = 0
    /\ blocks = <<>>
    /\ lane_a = <<>>
    /\ entry = Unbuilt
    /\ calls = 0
    /\ first = Unsolved
    /\ result = Unsolved
    /\ winner = NoWinner
    /\ d_in = <<>>
    /\ t_out = <<>>

\* test_solve::<S> with one solver type S
Init ==
    /\ prefix \in SolvePrefixes
    /\ kinds \in {{"single"}, {"double"}}
    /\ InitCommon

\* test_solve_16way: both constructors on the same prefix
InitNew ==
    /\ prefix \in NewPrefixes
    /\ kinds = {"single", "double"}
    /\ InitCommon

InitTarget ==
    /\ prefix = <<>>
    /\ kinds = {}
    /\ InitCommon

\* SingleBlockSolver16Way::new(ctx, prefix)
NewSingle ==
    /\ "single" \in kinds
    /\ single = Unbuilt
    /\ single' = SingleNew(prefix)
    /\ UNCHANGED <<prefix, kinds, double, solveVars, d_in, t_out>>

\* DoubleBlockSolver16Way::new(ctx, prefix)
NewDouble ==
    /\ "double" \in kinds
    /\ double = Unbuilt
    /\ double' = DoubleNew(prefix)
    /\ UNCHANGED <<prefix, kinds, single, solveVars, d_in, t_out>>

\* compute_target(d), with the earlier calls kept for comparison
ComputeTarget(d) ==
    /\ Len(d_in) < 2
    /\ d_in' = Append(d_in, d)
    /\ t_out' = Append(t_out, compute_target(d))
    /\ UNCHANGED <<prefix, kinds, single, double, solveVars>>

\* solver.solve(target_u32s) on a fresh single-block solver, up to the loops
SingleSolveCall(d) ==
    /\ pc = "idle"
    /\ result = Unsolved
    /\ single.tag = "some"
    /\ pc' = "solving"
    /\ active' = "single"
    /\ difficulty' = d
    /\ target' = target_u32s(compute_target(d))
    /\ prefix_set_index' = 0
    /\ inner_key' = 0
    /\ blocks' = <<>>
    /\ lane_a' = <<>>
    /\ entry' = single
    /\ calls' = calls + 1
    /\ UNCHANGED <<prefix, kinds, single, double, first, result, winner, d_in, t_out>>

\* solver.solve(target_u32s) once more on the same single-block solver, with the same
\* target, after the call before has returned
SingleSolveAgain ==
    /\ pc = "done"
    /\ active = "single"
    /\ calls < MaxCalls
    /\ pc' = "solving"
    /\ prefix_set_index' = 0
    /\ inner_key' = 0
    /\ blocks' = <<>>
    /\ lane_a' = <<>>
    /\ entry' = single
    /\ calls' = calls + 1
    /\ first' = result
    /\ result' = Unsolved
    /\ winner' = NoWinner
    /\ UNCHANGED <<prefix, kinds, single, double, active, difficulty, target, d_in, t_out>>

\* solver.solve(target_u32s) on a fresh double-block solver, up to the loops
DoubleSolveCall(d) ==
    /\ pc = "idle"
    /\ result = Unsolved
    /\ double.tag = "some"
    /\ pc' = "solving"
    /\ active' = "double"
    /\ difficulty' = d
    /\ target' = target_u32s(compute_target(d))
    /\ prefix_set_index' = 0
    /\ inner_key' = 0
    /\ blocks' = DoubleInitBlocks(double.message)
    /\ lane_a' = <<>>
    /\ entry' = double
    /\ calls' = calls + 1
    /\ UNCHANGED <<prefix, kinds, single, double, first, result, winner, d_in, t_out>>

\* the loop variables after an iteration without a hit
Advance ==
    IF inner_key + 1 < MaxInnerKey
    THEN inner_key' = inner_key + 1 /\ prefix_set_index' = prefix_set_index
    ELSE inner_key' = 0 /\ prefix_set_index' = prefix_set_index + 1

\* one iteration of the inner loop of solve_inner; a hit returns from solve
SingleStep ==
    /\ pc = "solving"
    /\ active = "single"
    /\ prefix_set_index < PrefixSets
    /\ \E r \in {SingleIteration(single, blocks, target, prefix_set_index, inner_key)} :
        /\ single' = r.solver
        /\ blocks' = r.blocks
        /\ lane_a' = r.lane_a
        /\ IF r.hit
           THEN /\ pc' = "done"
                /\ result' = r.result
                /\ winner' = [tag |-> "lane"] @@ r.winner
                /\ UNCHANGED <<prefix_set_index, inner_key>>
           ELSE /\ Advance
                /\ UNCHANGED <<pc, result, winner>>
    /\ UNCHANGED <<prefix, kinds, double, active, difficulty, target, entry, calls, first,
                   d_in, t_out>>

\* one iteration of the inner loop of DoubleBlockSolver16Way::solve
DoubleStep ==
    /\ pc = "solving"
    /\ active = "double"
    /\ prefix_set_index < PrefixSets
    /\ \E r \in {DoubleIteration(double, blocks, target, prefix_set_index, inner_key)} :
        /\ double' = r.solver
        /\ blocks' = r.blocks
        /\ lane_a' = r.lane_a
        /\ IF r.hit
           THEN /\ pc' = "done"
                /\ result' = r.result
                /\ winner' = [tag |-> "lane"] @@ r.winner
                /\ UNCHANGED <<prefix_set_index, inner_key>>
           ELSE /\ Advance
                /\ UNCHANGED <<pc, result, winner>>
    /\ UNCHANGED <<prefix, kinds, single, active, difficulty, target, entry, calls, first,
                   d_in, t_out>>

\* both loops ran out: solve returns None
SolveExhausted ==
    /\ pc = "solving"
    /\ prefix_set_index = PrefixSets
    /\ pc' = "done"
    /\ result' = [tag |-> "none"]
    /\ UNCHANGED <<prefix, kinds, single, double, active, difficulty, target,
                   prefix_set_index, inner_key, blocks, lane_a, entry, calls, first, winner,
                   d_in, t_out>>

Next ==
    \/ NewSingle
    \/ NewDouble
    \/ \E d \in SolveDifficulties : SingleSolveCall(d)
    \/ \E d \in SolveDifficulties : DoubleSolveCall(d)
    \/ SingleSolveAgain
    \/ SingleStep
    \/ DoubleStep
    \/ SolveExhausted

Spec == Init /\ [][Next]_vars

NextNew == NewSingle \/ NewDouble

SpecNew == InitNew /\ [][NextNew]_vars

NextTarget == \E d \in Difficulties : ComputeTarget(d)

SpecTarget == InitTarget /\ [][NextTarget]_vars

\* the solver whose solve runs
Solver == IF active = "single" THEN single ELSE double

Returned == pc = "done" /\ result.tag = "some"

(***************************************************************************)
(* Properties of solve, checked under Spec.                                *)
(***************************************************************************)
\* the offset of the digit window in the template of the running solver
DigitIndex == IF active = "single" THEN single.digit_index ELSE DIGIT_IDX

\* the nine bytes of the digit window of the template of the running solver
DigitWindow == SubSeq(BlockBytes(Solver.message), DigitIndex + 1, DigitIndex + 9)

\* the bytes of the blocks the running solver hashes itself: its template and, for the
\* double-block solver, the terminal padding block
OwnBlocks ==
    IF active = "single" THEN BlockBytes(single.message)
    ELSE BlockBytes(double.message)
             \o BlockBytes(SubSeq(double.terminal_message_schedule, 1, 16))

\* the top 32-bit word of a u128
TopWord(x) == <<x[1], x[2]>>

\* C1: when solve returns (nonce, digest), digest is the top 128 bits of
\* SHA-256(prefix || ascii_decimal(nonce)): the padded encoding of that message ends with
\* the stamped template (and the terminal block of the double-block solver), the blocks
\* before it are what the constructor absorbed, and ascii_decimal(nonce) is the filler
\* '1' bytes followed by the nine bytes of the digit window.
DigestIsSha256OfPrefixAndNonce ==
    Returned =>
        LET text == prefix \o ascii_decimal(result.nonce)
            padded == Sha256Pad(text)
            before == Len(padded) - Len(OwnBlocks)
        IN  /\ ~result.wrapped
            /\ result.digest = Digest128(Sha256(text))
            /\ ascii_decimal(result.nonce) = Repeat(49, Solver.filler) \o DigitWindow
            /\ before >= 0
            /\ SubSeq(padded, before + 1, Len(padded)) = OwnBlocks
            /\ Solver.prefix_state = Sha256Absorb(InitialState, SubSeq(padded, 1, before))

\* the double-block solver has returned a nonce with filler digits and a key that is not 0
DigestIsSha256OfPrefixAndNonceWitness ==
    /\ Returned
    /\ active = "double"
    /\ double.filler > 0
    /\ inner_key > 0

LaneHashedTheStampedTemplate ==
    Returned =>
        /\ winner.block = Solver.message
        /\ winner.a = TopWord(result.digest)

\* C4: a returned nonce has no leading zero: nonce - nonce_addend is a 9-digit number in
\* 100_000_000..=899_999_999 whose two leading digits are 10 + 16 * p + lane, in 10..89,
\* and ascii_decimal(nonce) has as many characters as there are filler digits, plus 9.
NonceHasNoLeadingZero ==
    Returned =>
        LET body == SubNat(result.nonce, Solver.nonce_addend)
            lead == 10 + 16 * prefix_set_index + winner.lane
        IN  /\ LeNat(Solver.nonce_addend, result.nonce)
            /\ ascii_decimal(result.nonce)[1] # 48
            /\ Len(ascii_decimal(result.nonce)) = Solver.filler + 9
            /\ lead \in 10..89
            /\ LeNat(FromInt(100000000, 4), body)
            /\ LeNat(body, FromInt(899999999, 4))
            /\ Len(ascii_decimal(body)) = 9
            /\ SubSeq(ascii_decimal(body), 1, 2) = <<48 + (lead \div 10), 48 + (lead % 10)>>

\* the single-block solver has returned the nonce of a lane that is not the first, behind
\* a filler that takes nonce_addend near the top of the u64 range
NonceHasNoLeadingZeroWitness ==
    /\ Returned
    /\ active = "single"
    /\ single.filler > 0
    /\ single.nonce_addend[1] >= 32768
    /\ winner.lane > 0

\* the candidates of a solve call: prefix set, inner key, lane
Candidates == (0..(PrefixSets - 1)) \X (0..(MaxInnerKey - 1)) \X (0..15)

\* the order of the search: p ascending, then inner_key, then the lane
Earlier(c, d) ==
    \/ c[1] < d[1]
    \/ c[1] = d[1] /\ c[2] < d[2]
    \/ c[1] = d[1] /\ c[2] = d[2] /\ c[3] < d[3]

\* the nonce of a candidate of the running solver
CandidateNonce(c) ==
    AddNat(FromInt(IF active = "single"
                   THEN SingleNonce(nonce_prefix(c[1], c[3]), c[2])
                   ELSE DoubleNonce(nonce_prefix(c[1], c[3]), c[2]), 4),
           Solver.nonce_addend)

\* the top 32-bit word of the digest of a candidate exceeds target[0]
CandidateWins(c) ==
    Gt32(Sha256(prefix \o ascii_decimal(CandidateNonce(c)))[1], target[1])

\* C6: solve on a fresh solver returns the first candidate, in the order of the search,
\* whose digest has a top word above target[0], and None exactly when no candidate has.
FirstWinningCandidate ==
    pc = "done" =>
        IF result.tag = "some"
        THEN LET c == <<prefix_set_index, inner_key, winner.lane>>
             IN  /\ result.nonce = CandidateNonce(c)
                 /\ CandidateWins(c)
                 /\ \A e \in Candidates : Earlier(e, c) => ~CandidateWins(e)
        ELSE \A e \in Candidates : ~CandidateWins(e)

(***************************************************************************)
(* Properties of compute_target, checked under SpecTarget.                 *)
(***************************************************************************)
\* the quotient that compute_target(d) = t took from u128::MAX
QuotientOf(t) == SubNat(U128Max, t)

\* q = floor((2^128 - 1) / d): q * d <= 2^128 - 1 < (q + 1) * d, in 160-bit arithmetic
IsFloorOfMaxBy(q, d) ==
    LET qd == MulNat(q, d)
        max == ZeroExtend(U128Max, 10)
    IN  /\ LeNat(qd, max)
        /\ LtNat(SubNat(max, qd), ZeroExtend(d, 10))

\* C7: for every difficulty d >= 1 that compute_target was applied to, the target is
\* 2^128 - 1 - floor((2^128 - 1) / d), a value of the u128 range; compute_target(1) is 0
\* and the top 32-bit word of compute_target(u32::MAX) is 2^32 - 2.
TargetFormula ==
    \A i \in 1..Len(t_out) :
        /\ Len(t_out[i]) = 8
        /\ \A k \in 1..8 : t_out[i][k] \in 0..65535
        /\ IsFloorOfMaxBy(QuotientOf(t_out[i]), d_in[i])
        /\ d_in[i] = <<0, 1>> => IsZero(t_out[i])
        /\ d_in[i] = U32Max => target_u32s(t_out[i])[1] = <<65535, 65534>>
        /\ d_in[i] = TestDifficulty =>
               t_out[i] = <<65534, 45172, 42865, 51568, 63417, 57440, 65095, 39195>>

\* compute_target has been applied to every boundary difficulty the claim names
TargetFormulaWitness ==
    /\ Len(t_out) = 2
    /\ d_in[1] = <<0, 1>>
    /\ d_in[2] = U32Max
    /\ IsZero(t_out[1])

\* C8: compute_target is strictly increasing: of two difficulties d1 < d2 it was applied
\* to, the target of d1 is below the target of d2.
TargetStrictlyIncreasing ==
    \A i, j \in 1..Len(t_out) :
        LtNat(d_in[i], d_in[j]) => LtNat(t_out[i], t_out[j])

\* two neighbouring difficulties at the top of the u32 range have been compared
TargetStrictlyIncreasingWitness ==
    /\ Len(t_out) = 2
    /\ d_in[1] = <<65535, 65534>>
    /\ d_in[2] = U32Max
    /\ LtNat(t_out[1], t_out[2])

(***************************************************************************)
(* Properties of the constructors, checked under SpecNew.                  *)
(***************************************************************************)
\* the tail that is left of the prefix after its full 64-byte blocks
TailLen == Len(prefix) % 64

\* the decimal digits of a run of k ones followed by nine zeros: 10^9 * 11..1
FillerRunDigits(k) == Repeat(1, k) \o Repeat(0, 9)

\* a number given by its decimal digits is at most u64::MAX
DigitsFitU64(ds) ==
    \/ Len(ds) < Len(U64MaxDecimal)
    \/ /\ Len(ds) = Len(U64MaxDecimal)
       /\ \/ ds = U64MaxDecimal
          \/ \E i \in 1..Len(ds) :
                 ds[i] < U64MaxDecimal[i] /\ \A j \in 1..(i - 1) : ds[j] = U64MaxDecimal[j]

\* the u64 a is 10^9 times the run of k ones (0 for the empty run)
IsFillerAddend(a, k) ==
    IF k = 0 THEN IsZero(a)
    ELSE ascii_decimal(a) = [i \in 1..(k + 9) |-> 48 + FillerRunDigits(k)[i]]

\* C5: once both constructors have run on a prefix, at least one of them has returned
\* a solver, whatever the length of the prefix.
OneSolverConstructs ==
    (single.tag # "unbuilt" /\ double.tag # "unbuilt") =>
        (single.tag = "some" \/ double.tag = "some")

\* the single-block constructor has refused a prefix and the double-block one took it
OneSolverConstructsWitness ==
    /\ single.tag = "none"
    /\ double.tag = "some"
    /\ Len(prefix) > 64

\* C9: SingleBlockSolver16Way::new on a prefix with tail length L emits a filler block
\* exactly when L + 9 + 9 > 64; the filler is 64 - L bytes '1' absorbed with the tail,
\* nonce_addend is 10^9 times the decimal value of the run and the result is None exactly
\* when that product does not fit a u64; when L + 18 <= 64 there is no filler,
\* nonce_addend is 0 and digit_index is L.
SingleNewFillerLaw ==
    single.tag # "unbuilt" =>
        /\ ~single.wrapped
        /\ IF TailLen + 9 + 9 > 64
           THEN /\ single.tag = "none" <=> ~DigitsFitU64(FillerRunDigits(64 - TailLen))
                /\ single.tag = "some" =>
                       /\ single.filler = 64 - TailLen
                       /\ IsFillerAddend(single.nonce_addend, 64 - TailLen)
                       /\ single.digit_index = 0
                       /\ single.prefix_state =
                              Sha256Absorb(InitialState, prefix \o Repeat(49, 64 - TailLen))
           ELSE /\ single.tag = "some"
                /\ single.filler = 0
                /\ IsZero(single.nonce_addend)
                /\ single.digit_index = TailLen
                /\ single.prefix_state = Sha256Absorb(InitialState, prefix)

\* the constructor has emitted a filler block after a full block of the prefix
SingleNewFillerLawWitness ==
    /\ single.tag = "some"
    /\ single.filler > 0
    /\ Len(prefix) > 64

\* the number of '1' bytes that bring offset L to (offset + 2) mod 8 = 0
PadCount(L) == CHOOSE k \in 0..7 : (L + k + 2) % 8 = 0

\* C10: DoubleBlockSolver16Way::new returns a solver exactly when the tail, filled with
\* '1' bytes until (offset + 2) mod 8 = 0, ends at offset 54; then the digit window is
\* bytes 54..62, byte 63 is 0x80 and nonce_addend is 10^9 times the decimal value of the
\* filler run; no u64 operation overflows on the way, whatever the result.
DoubleNewOffsetLaw ==
    double.tag # "unbuilt" =>
        /\ ~double.wrapped
        /\ double.tag \in {"some", "none"}
        /\ double.tag = "some" <=> TailLen + PadCount(TailLen) = 54
        /\ double.tag = "some" =>
               LET bytes == BlockBytes(double.message)
                   k == PadCount(TailLen)
               IN  /\ double.filler = k
                   /\ IsFillerAddend(double.nonce_addend, k)
                   /\ SubSeq(bytes, 1, 54) =
                          SubSeq(prefix, Len(prefix) - TailLen + 1, Len(prefix))
                              \o Repeat(49, k)
                   /\ SubSeq(bytes, 55, 63) = Repeat(0, 9)
                   /\ bytes[64] = 128
                   /\ double.prefix_state =
                          Sha256Absorb(InitialState, SubSeq(prefix, 1, Len(prefix) - TailLen))

\* the constructor has accepted a prefix that needed filler bytes
DoubleNewOffsetLawWitness ==
    /\ double.tag = "some"
    /\ double.filler > 0
    /\ ~IsZero(double.nonce_addend)


(***************************************************************************)
(* The scenarios of the tests' phrase lengths 46 and 55.                   *)
(***************************************************************************)
\* both constructors have run on the tests' prefix of phrase length 46 (55 bytes)
Phrase46Built ==
    /\ prefix = build_prefix(46)
    /\ single.tag # "unbuilt"
    /\ double.tag # "unbuilt"

\* C11 (as stated): for the prefix 'z' || bincode("a" * 46) DoubleBlockSolver16Way::new
\* constructs a solver and SingleBlockSolver16Way::new returns None.
Phrase46DoubleConstructsSingleRefuses ==
    Phrase46Built => double.tag = "some" /\ single.tag = "none"

\* C11 (amended): for the prefix 'z' || bincode("a" * 46), 55 bytes long,
\* SingleBlockSolver16Way::new constructs a solver behind a filler block of nine '1'
\* bytes (55 + 18 > 64, and 111111111 * 10^9 fits a u64) and
\* DoubleBlockSolver16Way::new returns None (seven '1' bytes bring the offset to 62,
\* which is not DIGIT_IDX).
Phrase46SingleConstructsDoubleRefuses ==
    Phrase46Built =>
        /\ single.tag = "some"
        /\ single.filler = 9
        /\ single.digit_index = 0
        /\ ascii_decimal(single.nonce_addend) = Repeat(49, 9) \o Repeat(48, 9)
        /\ double.tag = "none"

\* both constructors have answered for phrase length 46
Phrase46SingleConstructsDoubleRefusesWitness ==
    /\ Phrase46Built
    /\ Len(prefix) = 55
    /\ {single.tag, double.tag} = {"some", "none"}

\* SingleBlockSolver16Way::new has run on the tests' prefix of phrase length 55 (64 bytes)
Phrase55Built ==
    /\ prefix = build_prefix(55)
    /\ single.tag # "unbuilt"

\* 10^9 as a u64
TenToNine == FromInt(1000000000, 4)

\* C12 (as stated): for the prefix 'z' || bincode("a" * 55) SingleBlockSolver16Way::new
\* constructs a solver by emitting a filler block, so nonce_addend > 0 and every nonce
\* that solve returns is at least 10^9.
Phrase55FillerBlock ==
    Phrase55Built =>
        /\ single.tag = "some"
        /\ single.filler > 0
        /\ ~IsZero(single.nonce_addend)
        /\ (active = "single" /\ Returned) => LeNat(TenToNine, result.nonce)

\* C12 (amended): for the prefix 'z' || bincode("a" * 55), 64 bytes long,
\* SingleBlockSolver16Way::new absorbs the prefix as one full block and constructs a
\* solver without a filler block: digit_index = 0, nonce_addend = 0, the template is the
\* 9-byte digit window, 0x80 and the bit length of 73 bytes, and every nonce that solve
\* returns is a 9-digit number below 10^9.
Phrase55NoFillerBlock ==
    Phrase55Built =>
        /\ single.tag = "some"
        /\ single.filler = 0
        /\ IsZero(single.nonce_addend)
        /\ single.digit_index = 0
        /\ single.prefix_state = compress_block_reference(InitialState, WordsOfBlock(prefix))
        /\ (active = "single" /\ Returned) =>
               /\ LtNat(result.nonce, TenToNine)
               /\ Len(ascii_decimal(result.nonce)) = 9

\* solve has returned a nonce for the prefix of phrase length 55
Phrase55NoFillerBlockWitness ==
    /\ Phrase55Built
    /\ active = "single"
    /\ Returned
    /\ Len(prefix) = 64

(***************************************************************************)
(* The SHA-256 padding of the templates.                                   *)
(***************************************************************************)
\* the bit length of n bytes as a big-endian u64
BitLength(n) == FromInt(n * 8, 4)

\* the length of the hashed message: the prefix, the filler bytes and the 9 digits
HashedLength(s) == Len(prefix) + s.filler + 9

\* C13: for every solver that either constructor returns, the 64-bit big-endian length
\* trailer (bytes 56..63 of the single-block template, words 14..15 of the double-block
\* solver's terminal block) is 8 * (prefix length + filler bytes + 9), the byte 0x80
\* stands immediately after the 9-byte digit window with only zeros between it and the
\* trailer, and neither depends on the digits in the window.
PaddingTrailerLaw ==
    /\ single.tag = "some" =>
           LET bytes == BlockBytes(single.message)
           IN  /\ SubSeq(bytes, 57, 64) = BytesOf(BitLength(HashedLength(single)))
               /\ bytes[single.digit_index + 9 + 1] = 128
               /\ \A i \in (single.digit_index + 9 + 2)..56 : bytes[i] = 0
               /\ Len(prefix) + single.filler = 64 * ((Len(prefix) + single.filler) \div 64)
                                                    + single.digit_index
    /\ double.tag = "some" =>
           LET bytes == BlockBytes(double.message)
               terminal == SubSeq(double.terminal_message_schedule, 1, 16)
           IN  /\ terminal[15] \o terminal[16] = BitLength(HashedLength(double))
               /\ \A i \in 1..14 : terminal[i] = <<0, 0>>
               /\ bytes[DIGIT_IDX + 9 + 1] = 128
               /\ double.terminal_message_schedule = do_message_schedule(terminal)
               /\ (Len(prefix) + double.filler) % 64 = DIGIT_IDX

\* both kinds of solver have been constructed behind full blocks and filler bytes
PaddingTrailerLawWitness ==
    /\ single.tag = "some"
    /\ double.tag = "some"
    /\ single.filler > 0
    /\ double.filler > 0
    /\ Len(prefix) > 64

(***************************************************************************)
(* The blocks the lanes of the single-block solver hash.                   *)
(***************************************************************************)
\* an iteration of the first solve call on a single-block solver is about to run
SingleIterating ==
    /\ pc = "solving"
    /\ calls = 1
    /\ active = "single"
    /\ prefix_set_index < PrefixSets

\* the nine decimal digits of the candidate of a lane at (p, key), without nonce_addend
CandidateDigits(p, key, lane) ==
    ascii_decimal(FromInt(nonce_prefix(p, lane) * 10000000 + key, 4))

\* the template of solver s with the digit window filled with nine digits
TemplateWithDigits(s, digits) ==
    LET bytes == BlockBytes(s.message)
    IN  WordsOfBlock([i \in 1..64 |->
                         IF i > s.digit_index /\ i <= s.digit_index + 9
                         THEN digits[i - s.digit_index]
                         ELSE bytes[i]])

\* the words that hold the seven inner-key digits are among the re-loaded ones
ReloadCoversInnerKey(digit_index) ==
    \A i \in 2..8 :
        LET w == (digit_index + i) \div 4
            idx1 == DigitWordIdx1(digit_index)
        IN  /\ w \in {idx1, idx1 + 1, idx1 + 2}
            /\ w <= 15

\* C14: in every iteration (p, inner_key) of SingleBlockSolver16Way::solve on a fresh
\* solver, the 16-word block every lane hashes is the template that solve found, with
\* bytes digit_index .. digit_index + 8 replaced by the nine ASCII digits of
\* (10 + 16 * p + lane) * 10^7 + inner_key and every other byte unchanged, whether the two
\* lane-ID bytes share a word or lie in adjacent words; the two or three re-loaded
\* words cover every word that holds an inner-key digit.
LaneBlockIsTemplateWithCandidate ==
    [][SingleIterating =>
          /\ Len(CandidateDigits(prefix_set_index, inner_key, 15)) = 9
          /\ ReloadCoversInnerKey(entry.digit_index)
          /\ DigitWordIdx1(entry.digit_index) - DigitWordIdx0(entry.digit_index) \in {0, 1}
          /\ \A lane \in 0..15 :
                 LaneBlock(blocks', lane + 1) =
                     TemplateWithDigits(
                         entry, CandidateDigits(prefix_set_index, inner_key, lane))]_vars

\* the lanes have hashed a later candidate of a solver whose lane-ID bytes lie in
\* adjacent words
LaneBlockIsTemplateWithCandidateWitness ==
    /\ active = "single"
    /\ blocks # <<>>
    /\ DigitWordIdx1(single.digit_index) = DigitWordIdx0(single.digit_index) + 1
    /\ prefix_set_index > 0
    /\ inner_key > 0
    /\ lane_a # <<>>

(***************************************************************************)
(* What solve changes of the solver.                                       *)
(***************************************************************************)
\* solve has been entered
InSolve == pc \in {"solving", "done"}

\* the fields of the running solver other than the template are as solve found them
FieldsUnchanged ==
    /\ Solver.prefix_state = entry.prefix_state
    /\ Solver.nonce_addend = entry.nonce_addend
    /\ active = "single" => single.digit_index = entry.digit_index
    /\ active = "double" =>
           double.terminal_message_schedule = entry.terminal_message_schedule

\* the message bytes (from 0) in which the template differs from the one solve found
ChangedBytes ==
    {i \in 0..63 : MessageByte(Solver.message, i) # MessageByte(entry.message, i)}

\* C15 (as stated): solve never changes prefix_state, digit_index, nonce_addend or the
\* terminal message schedule, and it changes the template only when it succeeds: while
\* it searches, and after it has returned None, the whole solver is as solve found it.
SolveChangesTemplateOnlyOnSuccess ==
    InSolve =>
        /\ FieldsUnchanged
        /\ result.tag # "some" => Solver.message = entry.message

\* C15 (amended): solve never changes prefix_state, digit_index, nonce_addend or the
\* terminal message schedule. DoubleBlockSolver16Way::solve changes the template only
\* when it succeeds, and then only the nine bytes of the digit window.
\* SingleBlockSolver16Way::solve writes the seven inner-key digits into bytes
\* digit_index + 2 .. digit_index + 8 of the template in every iteration, hit or not,
\* and the two lane-ID bytes only when it succeeds: a call that returns None leaves
\* the solver unchanged except for these seven bytes, which hold the digits of the last
\* inner key.
SolveFrame ==
    InSolve =>
        /\ FieldsUnchanged
        /\ ChangedBytes \subseteq DigitIndex..(DigitIndex + 8)
        /\ (active = "double" /\ result.tag # "some") => double.message = entry.message
        /\ (active = "single" /\ result.tag # "some") =>
               /\ ChangedBytes \subseteq (DigitIndex + 2)..(DigitIndex + 8)
               /\ (lane_a # <<>> /\ calls = 1) =>
                      ChangedBytes = (DigitIndex + 2)..(DigitIndex + 8)
               /\ result.tag = "none" =>
                      SubSeq(DigitWindow, 3, 9) =
                          SubSeq(CandidateDigits(0, MaxInnerKey - 1, 0), 3, 9)

\* SingleBlockSolver16Way::solve has returned None and left inner-key digits behind
SolveFrameWitness ==
    /\ pc = "done"
    /\ active = "single"
    /\ result.tag = "none"
    /\ single.message # entry.message

(***************************************************************************)
(* Word 13 of the double-block template.                                   *)
(***************************************************************************)
\* C16: for every DoubleBlockSolver16Way that new returns, word 13 of the template
\* (message bytes 52..55) is zero before the lane ID is stamped, so that the lane word
\* W[13], set to the lane-ID mask alone, is word 13 of the block of the real message
\* for every prefix set and lane.
DoubleWord13IsZero ==
    double.tag = "some" =>
        /\ double.message[13 + 1] = <<0, 0>>
        /\ \A p \in 0..(PrefixSets - 1), l \in 0..15 :
               DoubleLaneWord(p)[l + 1] =
                   StampLaneId(double.message, DIGIT_IDX, nonce_prefix(p, l))[13 + 1]

(***************************************************************************)
(* The acceptance test.                                                    *)
(***************************************************************************)
\* the lanes of the last comparison whose A word exceeds target[0]
LanesAbove == {l \in 0..15 : Gt32(lane_a[l + 1], target[1])}

\* C17: the acceptance test of both solvers compares only the top 32-bit word of the
\* digest of each candidate, strictly greater-than, against target[0]: the word each
\* lane compares is the top word of SHA-256(prefix || nonce of the lane), the lane that
\* is accepted is the first whose word exceeds target[0], whatever the lower words of
\* the target are, and the digest of an accepted candidate never has a top word equal
\* to target[0].
AcceptanceComparesDigestTopWord ==
    Returned =>
        /\ \A l \in 0..15 :
               lane_a[l + 1] =
                   Sha256(prefix \o ascii_decimal(
                       CandidateNonce(<<prefix_set_index, inner_key, l>>)))[1]
        /\ winner.lane \in LanesAbove
        /\ \A l \in LanesAbove : winner.lane <= l
        /\ winner.a = lane_a[winner.lane + 1]
        /\ Gt32(TopWord(result.digest), target[1])

(***************************************************************************)
(* Repeated solve calls on one single-block solver.                        *)
(***************************************************************************)
\* the two lane-ID bytes of a single-block template
LaneIdBytes(s) ==
    <<MessageByte(s.message, s.digit_index), MessageByte(s.message, s.digit_index + 1)>>

\* C18: solve may be called again on the same SingleBlockSolver16Way: whatever the
\* calls before returned, the two lane-ID bytes of the template are zero when solve is
\* entered, so that OR-ing the lane-ID masks gives the intended digits, and a second
\* call with the same target returns the same (nonce, digest) as the first.
RepeatedSolveSameResult ==
    (InSolve /\ active = "single") =>
        /\ LaneIdBytes(entry) = <<0, 0>>
        /\ (calls = 2 /\ pc = "done") => result = first

(***************************************************************************)
(* Index safety of the single-block solver.                                *)
(***************************************************************************)
\* C19: for every SingleBlockSolver16Way that new returns, digit_index <= 46: the 0x80
\* byte at digit_index + 9 <= 55 stays clear of the length trailer in bytes 56..63,
\* every byte index digit_index + i + 2 (i in 0..7) and digit_index + 1 that solve uses
\* unchecked is below 64, both lane-ID word indices are in 0..16 and differ by 0 or 1,
\* and the dispatch never reaches an unreachable_unchecked arm.
SingleIndicesInRange ==
    single.tag = "some" =>
        LET idx0 == DigitWordIdx0(single.digit_index)
            idx1 == DigitWordIdx1(single.digit_index)
        IN  /\ single.digit_index \in 0..46
            /\ single.digit_index + 9 <= 55
            /\ MessageByte(single.message, single.digit_index + 9) = 128
            /\ \A i \in 0..6 : single.digit_index + i + 2 < 64
            /\ single.digit_index + 1 < 64
            /\ \A i \in 0..8 : single.digit_index + i + 1 \in DOMAIN SWAP_DWORD_BYTE_ORDER
            /\ idx0 \in 0..15
            /\ idx1 \in 0..15
            /\ idx1 - idx0 \in {0, 1}
            /\ idx1 + 2 <= 15

\* the constructor has returned a solver with the largest digit_index
SingleIndicesInRangeWitness ==
    /\ single.tag = "some"
    /\ single.digit_index = 46
    /\ DigitWordIdx1(single.digit_index) = 11
====
